---- MODULE Spec2Model ----
(***************************************************************************)
(* A model of gperc.trainer.Trainer (src/gperc/trainer.py): the training   *)
(* loop Trainer.train with its periodic evaluation, the batch step         *)
(* Trainer.__call__, and the checkpoint operations Trainer.save and        *)
(* Trainer.load.                                                           *)
(*                                                                         *)
(* Spec      one call of Trainer.train on a constructed Trainer            *)
(* SpecFail  the same, with collaborators that may raise                   *)
(* SpecCkpt  a constructed Trainer driven through save / load / steps      *)
(* SpecCall  one call of Trainer.__call__, position by position            *)
(***************************************************************************)
EXTENDS Integers, Sequences, FiniteSets, TLC

\* ---------------------------------------------------------------- bounds
MaxSteps == 3        \* n_steps ranges over 0..MaxSteps
MaxTestEvery == 2    \* test_every ranges over None and 1..MaxTestEvery
MaxTestBatches == 2  \* len(test_data._batches) ranges over 1..MaxTestBatches
MaxLoss == 2         \* per-example losses range over 1..MaxLoss
NClasses == 2        \* n_classes of both data sources
NBytes == 2          \* n_bytes of both data sources
MaxUpdates == 2      \* parameter updates between checkpoint operations
MaxMask == 2         \* attention-mask row sums range over 1..MaxMask
MaxGrad == 2         \* gradient elements after backward range over -MaxGrad..MaxGrad

\* ------------------------------------------------------ program constants
GradClip == 1        \* grad_clip, line 72 (default) and line 163

\* ------------------------------------------------------- optional values
\* Python's None and a present value v, kept apart from every value.
None == <<>>
Some(v) == <<v>>
Val(o) == o[1]

\* ------------------------------------------------------- exact fractions
\* A quotient a/b of two integers, as the pair <<a, b>>; float("inf") is 1/0.
Frac(a, b) == <<a, b>>
Inf == Frac(1, 0)
FracLess(x, y) == x[1] * y[2] < y[1] * x[2]
FracEq(x, y) == x[1] * y[2] = y[1] * x[2]

RECURSIVE SumSeq(_)
SumSeq(s) == IF s = <<>> THEN 0 ELSE Head(s) + SumSeq(Tail(s))

\* The indices of the examples of a batch whose label is c.
OfClass(class, c) == {e \in 1..Len(class) : class[e] = c}

RECURSIVE SumOver(_, _)
SumOver(f, S) ==
  IF S = {} THEN 0
  ELSE LET e == CHOOSE x \in S : TRUE IN f[e] + SumOver(f, S \ {e})

\* ------------------------------------------------- Trainer.__call__: record
\* Lines 106-111: a mapping over every class id 0..n_classes-1, 0 at first, to
\* which each example adds its value under its own label.
ByClassPresentOnly(vals, class, n_classes) ==
  [c \in {class[e] : e \in 1..Len(class)} |-> SumOver(vals, OfClass(class, c))]
ByClass(vals, class, n_classes) ==
  [c \in 0..(n_classes - 1) |-> SumOver(vals, OfClass(class, c))]

\* Line 114: bytes_processed = am.sum().item() * n_bytes
BytesProcessedNoScale(attention_mask, n_bytes) == SumSeq(attention_mask)
BytesProcessed(attention_mask, n_bytes) == SumSeq(attention_mask) * n_bytes

\* The MetricRecord of one batch.  batch.class are the labels and
\* batch.attention_mask the row sums of the mask; out.loss are the
\* per-example cross-entropy losses and out.hit the per-example correctness
\* indicators of the forward pass.  Timings are one unit each.
CallRecord(prefix, step, batch, out, n_bytes, n_classes) ==
  LET n == Len(batch.class)
      K(name) == prefix \o "/" \o name
      bytes_by_class == ByClass([e \in 1..n |-> n_bytes * batch.attention_mask[e]],
                                batch.class, n_classes)
      loss_by_class == ByClass(out.loss, batch.class, n_classes)
      acc_by_class == ByClass(out.hit, batch.class, n_classes)
      bytes_processed == BytesProcessed(batch.attention_mask, n_bytes)
      common ==
          (K("step") :> step)
       @@ (K("forward_pass_time") :> 1)
       @@ (K("bytes_processed") :> bytes_processed)
       @@ (K("bytes_processed_per_second") :> Frac(bytes_processed, 1))
       @@ (K("class_wise_bytes_processed") :> bytes_by_class)
       @@ (K("loss_avg") :> Frac(SumSeq(out.loss), n))
       @@ (K("acc_avg") :> Frac(SumSeq(out.hit), n))
       @@ (K("loss_class") :> loss_by_class)
       @@ (K("acc_class") :> acc_by_class)
  IN IF prefix = "train"
     THEN common @@ ("train/backward_pass_time" :> 1) @@ ("train/total_time" :> 2)
     ELSE common

\* ----------------------------------------------------------- data sources
\* The batches a data source hands out, and what the forward pass makes of
\* them: one example per batch, indexed by its loss o.
PoolBatch(o) == [class |-> <<o % NClasses>>, attention_mask |-> <<1 + (o % 2)>>]
PoolOut(o) == [loss |-> <<o>>, hit |-> <<o % 2>>]

TrainData == [n_bytes |-> NBytes, n_classes |-> NClasses]
TestData(nb) == [_batches |-> nb, n_bytes |-> NBytes, n_classes |-> NClasses]

VARIABLES
  save_folder,   \* self.save_folder: None or Some(path)
  client,        \* self.client configured (TRUE) or None (FALSE)
  model_state,   \* self.model.state_dict(): the parameter values, named by the number
                 \* of the optimizer update that produced them (0: as constructed)
  model_mode,    \* "train" or "eval": self.model.train() / self.model.eval()
  optim_state,   \* optim.state_dict(): the number of updates the optimizer has made
  sched_state,   \* lr_scheduler.state_dict(); no line of the Trainer advances it
  fs,            \* the filesystem: [dirs, files]
  n_steps,       \* train(): n_steps
  test_every,    \* train(): None or Some(int)
  test_data,     \* train(): None or Some(data source)
  i,             \* train(): the loop index of line 155
  batch_meta,    \* train(): the local batch_meta
  metas,         \* train(): the local metas
  test_meta,     \* train(): the local test_meta, None while unbound
  min_loss,      \* train(): the running best
  k,             \* train(): the local k of line 189, None while unbound
  pc,            \* train(): the position in the loop
  err,           \* the exception that ended the call, "" if none
  events,        \* the calls made on the collaborators, in order
  client_calls,  \* the records handed to self.client, in order
  save_calls,    \* the calls of self.save made by train, in order
  eval_points,   \* per finished evaluation pass: its step and the mean val/loss_avg
  saved,         \* per label: None, or what the latest save under it wrote as model.pt
  call,          \* __call__(): its arguments and the gradients of the parameters
  last           \* the last call of save or load from outside, and its outcome

vars == <<save_folder, client, model_state, model_mode, optim_state, sched_state, fs,
          n_steps, test_every, test_data, i, batch_meta, metas, test_meta, min_loss, k, pc, err,
          events, client_calls, save_calls, eval_points, saved, call, last>>

trainerVars == <<save_folder, client>>
callVars == <<call>>
ckptVars == <<fs, sched_state, save_calls, saved, last>>
argVars == <<n_steps, test_every, test_data>>

EmptyRecord == [x \in {} |-> 0]

\* ------------------------------------------------------------- filesystem
\* A path is the sequence of its components; an absolute path starts with "/".
\* fs.dirs are the directories and fs.files maps the path of a file to its
\* content, both by the path as resolved from the working directory.
EmptyFs == [dirs |-> {}, files |-> EmptyRecord]

\* os.path.join(a, b): b alone when b is absolute, otherwise b below a.
Join(a, b) == IF b # <<>> /\ b[1] = "/" THEN b ELSE a \o b

\* The resolution of a path: "." components name the directory they stand in.
Norm(p) == SelectSeq(p, LAMBDA c : c # ".")

\* os.makedirs(p, exist_ok = True): p and every missing directory above it.
MakeDirs(dirs, p) == dirs \cup {SubSeq(Norm(p), 1, n) : n \in 1..Len(Norm(p))}

WriteFile(files, p, content) == (Norm(p) :> content) @@ files
Exists(files, p) == Norm(p) \in DOMAIN files
ReadFile(files, p) == files[Norm(p)]

Artifact(kind, state) == [kind |-> kind, state |-> state]

\* Lines 30-33: the save folder and config.json, when a save folder is given.
ConstructedFs(folder) ==
  IF folder = None THEN EmptyFs
  ELSE [dirs |-> MakeDirs({}, Val(folder)),
        files |-> WriteFile(EmptyRecord, Join(Val(folder), <<"config.json">>),
                            Artifact("config", 0))]

\* ------------------------------------------------------------ Trainer.save
\* Line 48: step_folder = os.path.join(self.save_folder, name)
StepFolderNoJoin(folder, name) == name
StepFolder(folder, name) == Join(folder, name)

\* Line 50: os.makedirs(step_folder, exist_ok = True) fails only when the path
\* is there and is not a directory; without a save folder save returns before.
SaveErrorNoExistOk(f, folder, name) ==
  IF folder = None THEN ""
  ELSE IF Norm(StepFolder(Val(folder), name)) \in (DOMAIN f.files) \cup f.dirs
       THEN "FileExistsError"
       ELSE ""
SaveError(f, folder, name) ==
  IF folder = None THEN ""
  ELSE IF Norm(StepFolder(Val(folder), name)) \in DOMAIN f.files
       THEN "FileExistsError"
       ELSE ""

\* Lines 43-55: the filesystem after save(name, optim, lr_scheduler); optim and
\* lr_scheduler are None or Some(state_dict).
SaveWithoutFolderCheck(f, folder, name, model, optim, lr_scheduler) ==
  LET step_folder == IF folder = None THEN name ELSE StepFolder(Val(folder), name)
  IN [dirs |-> MakeDirs(f.dirs, step_folder),
      files |-> WriteFile(f.files, Join(step_folder, <<"model.pt">>), Artifact("model", model))]
Save(f, folder, name, model, optim, lr_scheduler) ==
  IF folder = None THEN f
  ELSE
    LET step_folder == StepFolder(Val(folder), name)
        f1 == WriteFile(f.files, Join(step_folder, <<"model.pt">>), Artifact("model", model))
        f2 == IF optim # None
              THEN WriteFile(f1, Join(step_folder, <<"optim.pt">>), Artifact("optim", Val(optim)))
              ELSE f1
        f3 == IF lr_scheduler # None
              THEN WriteFile(f2, Join(step_folder, <<"lr_scheduler.pt">>),
                             Artifact("lr_scheduler", Val(lr_scheduler)))
              ELSE f2
    IN [dirs |-> MakeDirs(f.dirs, step_folder), files |-> f3]

\* ------------------------------------------------------------ Trainer.load
\* Lines 66-70: load(save_folder, optim, lr_scheduler) on the files; optim and
\* lr_scheduler say whether the argument is given.  Line 66 opens model.pt and
\* fails when it is missing.  Lines 68 and 70 read self.optim and
\* self.lr_scheduler, attributes no line of the class sets: AttributeError,
\* after the model has been restored and before any state is loaded.
Load(files, folder, optim, lr_scheduler, model) ==
  LET model_pt == Join(folder, <<"model.pt">>) IN
  IF ~Exists(files, model_pt)
  THEN [raised |-> "FileNotFoundError", model |-> model, read |-> Norm(model_pt)]
  ELSE [raised |-> IF optim /\ Exists(files, Join(folder, <<"optim.pt">>))
                     THEN "AttributeError"
                   ELSE IF lr_scheduler /\ Exists(files, Join(folder, <<"lr_scheduler.pt">>))
                     THEN "AttributeError"
                   ELSE "",
        model |-> ReadFile(files, model_pt).state,
        read |-> Norm(model_pt)]

\* The labels save is called with, and the folders load is called with.
Labels == {<<"x">>, <<"y">>}
LoadFolders(folder) ==
  Labels \cup (IF folder = None THEN {} ELSE {Join(Val(folder), n) : n \in Labels})

\* The frame of __call__ while no call of it is followed position by position.
NoFrame == [train |-> FALSE, optim |-> FALSE, batch |-> <<>>, out |-> <<>>,
            requires_grad |-> <<>>, grad |-> <<>>, raw |-> <<>>, applied |-> None,
            pre_model |-> 0, pre_optim |-> 0]

NoCall == [op |-> "none", arg |-> <<>>, optim |-> FALSE, lr_scheduler |-> FALSE,
           raised |-> "", read |-> <<>>, pre_optim |-> 0, pre_sched |-> 0, again |-> FALSE]

\* ------------------------------------------------------------ Trainer.train
\* Line 168: i and test_every != None and test_data != None and i % test_every == 0
EvalDueAtZero(step, every, data) ==
  /\ every # None
  /\ data # None
  /\ step % Val(every) = 0
EvalDue(step, every, data) ==
  /\ step # 0
  /\ every # None
  /\ data # None
  /\ step % Val(every) = 0

\* Line 173: the inner loop iterates pbar, the trange(n_steps) of line 152; every
\* iteration of a tqdm object walks its iterable, range(n_steps), afresh.
EvalIterations(steps, data) == steps

\* Line 202: f"step_{i}"
StepLabel(step) == "step_" \o ToString(step)

\* The mean of val/loss_avg over the records of one evaluation pass.
MeanLossAvg(ms) ==
  LET num == SumSeq([j \in 1..Len(ms) |-> ms[j]["val/loss_avg"][1]])
      den == ms[1]["val/loss_avg"][2]
  IN Frac(num, den * Len(ms))

\* Line 155: the next index of range(n_steps), or the end of the loop.
TrainFor ==
  /\ pc = "for"
  /\ pc' = IF i < n_steps THEN "step" ELSE "done"
  /\ UNCHANGED <<trainerVars, callVars, ckptVars, argVars, model_state, model_mode, optim_state,
                 i, batch_meta, metas, test_meta, min_loss, k, err, events, client_calls, eval_points>>

\* Lines 156-166: one training batch through __call__ with train = True.
TrainStep ==
  /\ pc = "step"
  /\ \E o \in 1..MaxLoss :
       batch_meta' = CallRecord("train", i, PoolBatch(o), PoolOut(o),
                                TrainData.n_bytes, TrainData.n_classes)
  /\ model_mode' = "train"
  /\ model_state' = optim_state + 1
  /\ optim_state' = optim_state + 1
  /\ events' = events \o << <<"train_data.get_next_batch", i>>, <<"call_train", i>> >>
  /\ pc' = "check"
  /\ UNCHANGED <<trainerVars, callVars, ckptVars, argVars, i, metas, test_meta, min_loss, k, err,
                 client_calls, eval_points>>

\* Lines 168-172: the evaluation guard; entering creates pbar_val (an event) and metas.
TrainCheckEval ==
  /\ pc = "check"
  /\ IF EvalDue(i, test_every, test_data)
     THEN /\ metas' = <<>>
          /\ events' = Append(events, <<"pbar_val", i>>)
          /\ pc' = "eval"
     ELSE /\ pc' = "log"
          /\ UNCHANGED <<metas, events>>
  /\ UNCHANGED <<trainerVars, callVars, ckptVars, argVars, model_state, model_mode, optim_state,
                 i, batch_meta, test_meta, min_loss, k, err, client_calls, eval_points>>

\* Lines 173-185: one evaluation batch through __call__ with train = False; the
\* record is assigned to batch_meta and appended to metas.
TrainEvalBatch ==
  /\ pc = "eval"
  /\ Len(metas) < EvalIterations(n_steps, test_data)
  /\ \E o \in 1..MaxLoss :
       /\ batch_meta' = CallRecord("val", i, PoolBatch(o), PoolOut(o),
                                   Val(test_data).n_bytes, Val(test_data).n_classes)
       /\ metas' = Append(metas, batch_meta')
  /\ model_mode' = "eval"
  /\ events' = events \o << <<"test_data.get_next_batch", i>>, <<"call_val", i>> >>
  /\ UNCHANGED <<trainerVars, callVars, ckptVars, argVars, model_state, optim_state,
                 i, test_meta, min_loss, k, pc, err, client_calls, eval_points>>

\* Line 173: the inner loop is exhausted.
TrainEvalEnd ==
  /\ pc = "eval"
  /\ Len(metas) >= EvalIterations(n_steps, test_data)
  /\ eval_points' = Append(eval_points, [step |-> i, loss |-> MeanLossAvg(metas)])
  /\ pc' = "aggregate"
  /\ UNCHANGED <<trainerVars, callVars, ckptVars, argVars, model_state, model_mode, optim_state,
                 i, batch_meta, metas, test_meta, min_loss, k, err, events, client_calls>>

\* Lines 188-202.  Line 188 binds test_meta to an empty dict.  Line 189 evaluates zip(metas[0].keys(), zip(*[m[k] for m in metas]))
\* before the for statement binds its targets k, v: metas[0] fails on an empty
\* list, and the comprehension reads the local k of train, which nothing has
\* assigned.  The NameError leaves train; lines 190-202 (the reduction, the merge
\* into batch_meta, the comparison with min_loss and self.save) are not reached.
TrainAggregate ==
  /\ pc = "aggregate"
  /\ test_meta' = Some(EmptyRecord)
  /\ err' = IF metas = <<>> THEN "IndexError"
            ELSE IF k = None THEN "NameError"
            ELSE "TypeError"
  /\ pc' = "raised"
  /\ UNCHANGED <<trainerVars, callVars, ckptVars, argVars, model_state, model_mode, optim_state,
                 i, batch_meta, metas, min_loss, k, events, client_calls, eval_points>>

\* Lines 204-206: the record goes to the client, if there is one; the loop goes on.
TrainLog ==
  /\ pc = "log"
  /\ IF client
     THEN /\ client_calls' = Append(client_calls, batch_meta)
          /\ events' = Append(events, <<"client", i>>)
     ELSE UNCHANGED <<client_calls, events>>
  /\ i' = i + 1
  /\ pc' = "for"
  /\ UNCHANGED <<trainerVars, callVars, ckptVars, argVars, model_state, model_mode, optim_state,
                 batch_meta, metas, test_meta, min_loss, k, err, eval_points>>

\* Trainer.__init__ (lines 23-33) followed by the entry of train (lines 152-153).
Init ==
  /\ save_folder \in {None, Some(<<"ckpt">>)}
  /\ client \in BOOLEAN
  /\ model_state = 0
  /\ model_mode = "train"
  /\ optim_state = 0
  /\ sched_state = 0
  /\ fs = ConstructedFs(save_folder)
  /\ n_steps \in 0..MaxSteps
  /\ test_every \in {None} \cup {Some(e) : e \in 1..MaxTestEvery}
  /\ test_data \in {None} \cup {Some(TestData(nb)) : nb \in 1..MaxTestBatches}
  /\ i = 0
  /\ batch_meta = EmptyRecord
  /\ metas = <<>>
  /\ test_meta = None
  /\ min_loss = Inf
  /\ k = None
  /\ pc = "for"
  /\ err = ""
  /\ events = <<>>
  /\ client_calls = <<>>
  /\ save_calls = <<>>
  /\ eval_points = <<>>
  /\ saved = [n \in Labels |-> None]
  /\ call = NoFrame
  /\ last = NoCall

Next ==
  \/ TrainFor
  \/ TrainStep
  \/ TrainCheckEval
  \/ TrainEvalBatch
  \/ TrainEvalEnd
  \/ TrainAggregate
  \/ TrainLog

Spec == Init /\ [][Next]_vars

\* ------------------------------------------- Trainer.train with failing collaborators
\* Lines 155-206 hold no try statement: an exception raised by a data source or
\* inside __call__ leaves the loop and train at once.
PropagateCaught == "log"
Propagate == "raised"

\* Where a collaborator can raise within one batch: the data source when asked
\* for the batch, or the model, the loss or the optimizer inside __call__.
RaisePoints == {"get_next_batch", "call"}

\* Lines 156-166 when train_data.get_next_batch() or the training call raises.
\* The call sets the mode on entry (line 87); an exception in the forward or the
\* backward pass comes before optim.step (line 134), so no parameter changes.
TrainStepRaises ==
  /\ pc = "step"
  /\ \E at \in RaisePoints :
       /\ events' = IF at = "get_next_batch"
                    THEN Append(events, <<"raise", i>>)
                    ELSE events \o << <<"train_data.get_next_batch", i>>, <<"raise", i>> >>
       /\ model_mode' = IF at = "call" THEN "train" ELSE model_mode
  /\ err' = "CollaboratorError"
  /\ pc' = Propagate
  /\ UNCHANGED <<trainerVars, callVars, ckptVars, argVars, model_state, optim_state, i,
                 batch_meta, metas, test_meta, min_loss, k, client_calls, eval_points>>

\* Lines 173-185 when test_data.get_next_batch() or the evaluation call raises.
TrainEvalRaises ==
  /\ pc = "eval"
  /\ Len(metas) < EvalIterations(n_steps, test_data)
  /\ \E at \in RaisePoints :
       /\ events' = IF at = "get_next_batch"
                    THEN Append(events, <<"raise", i>>)
                    ELSE events \o << <<"test_data.get_next_batch", i>>, <<"raise", i>> >>
       /\ model_mode' = IF at = "call" THEN "eval" ELSE model_mode
  /\ err' = "CollaboratorError"
  /\ pc' = Propagate
  /\ UNCHANGED <<trainerVars, callVars, ckptVars, argVars, model_state, optim_state, i,
                 batch_meta, metas, test_meta, min_loss, k, client_calls, eval_points>>

NextFail ==
  \/ TrainFor
  \/ TrainStep
  \/ TrainStepRaises
  \/ TrainCheckEval
  \/ TrainEvalBatch
  \/ TrainEvalRaises
  \/ TrainEvalEnd
  \/ TrainAggregate
  \/ TrainLog

SpecFail == Init /\ [][NextFail]_vars

\* ------------------------------------------- save, load and steps from outside
trainVars == <<n_steps, test_every, test_data, i, batch_meta, metas, test_meta, min_loss,
               k, pc, err, events, client_calls, save_calls, eval_points>>

\* A training step between checkpoint operations (lines 125-134): the optimizer
\* updates the parameters and its own state.
ApiStep ==
  /\ pc = "idle"
  /\ optim_state < MaxUpdates
  /\ model_state' = optim_state + 1
  /\ optim_state' = optim_state + 1
  /\ model_mode' = "train"
  /\ last' = [NoCall EXCEPT !.op = "step"]
  /\ UNCHANGED <<trainerVars, callVars, trainVars, fs, sched_state, saved>>

\* Lines 35-55: save(name, optim, lr_scheduler); last.again tells that the call
\* before it was the same call, with no step or load in between.
ApiSave ==
  /\ pc = "idle"
  /\ \E name \in Labels, o \in BOOLEAN, s \in BOOLEAN :
       /\ fs' = IF SaveError(fs, save_folder, name) # "" THEN fs
                ELSE Save(fs, save_folder, name, model_state,
                          IF o THEN Some(optim_state) ELSE None,
                          IF s THEN Some(sched_state) ELSE None)
       /\ saved' = IF save_folder = None \/ SaveError(fs, save_folder, name) # "" THEN saved
                   ELSE [saved EXCEPT ![name] =
                           Some([path |-> Norm(Join(Join(Val(save_folder), name), <<"model.pt">>)),
                                 state |-> model_state])]
       /\ last' = [op |-> "save", arg |-> name, optim |-> o, lr_scheduler |-> s,
                   raised |-> SaveError(fs, save_folder, name), read |-> <<>>,
                   pre_optim |-> optim_state, pre_sched |-> sched_state,
                   again |-> (/\ last.op = "save" /\ last.arg = name
                              /\ last.optim = o /\ last.lr_scheduler = s)]
  /\ UNCHANGED <<trainerVars, callVars, trainVars, model_state, model_mode, optim_state, sched_state>>

\* Lines 57-70: load(save_folder, optim, lr_scheduler).
ApiLoad ==
  /\ pc = "idle"
  /\ \E folder \in LoadFolders(save_folder), o \in BOOLEAN, s \in BOOLEAN :
       LET r == Load(fs.files, folder, o, s, model_state) IN
       /\ model_state' = r.model
       /\ last' = [op |-> "load", arg |-> folder, optim |-> o, lr_scheduler |-> s,
                   raised |-> r.raised, read |-> r.read,
                   pre_optim |-> optim_state, pre_sched |-> sched_state, again |-> FALSE]
  /\ UNCHANGED <<trainerVars, callVars, trainVars, model_mode, optim_state, sched_state, fs, saved>>

\* Trainer.__init__ (lines 23-33); no call of train is under way.
InitCkpt ==
  /\ save_folder \in {None, Some(<<"ckpt">>), Some(<<".">>)}
  /\ client = FALSE
  /\ model_state = 0
  /\ model_mode = "train"
  /\ optim_state = 0
  /\ sched_state = 0
  /\ fs = ConstructedFs(save_folder)
  /\ n_steps = 0
  /\ test_every = None
  /\ test_data = None
  /\ i = 0
  /\ batch_meta = EmptyRecord
  /\ metas = <<>>
  /\ test_meta = None
  /\ min_loss = Inf
  /\ k = None
  /\ pc = "idle"
  /\ err = ""
  /\ events = <<>>
  /\ client_calls = <<>>
  /\ save_calls = <<>>
  /\ eval_points = <<>>
  /\ saved = [n \in Labels |-> None]
  /\ call = NoFrame
  /\ last = NoCall

NextCkpt ==
  \/ ApiStep
  \/ ApiSave
  \/ ApiLoad

SpecCkpt == InitCkpt /\ [][NextCkpt]_vars

\* ------------------------------------------------ one call of Trainer.__call__
\* The batches of two examples with labels in 0..NClasses-1, and the outcomes
\* of the forward pass on them: a loss per example, and a hit where the loss is
\* the lowest.
Batches ==
  {[class |-> <<c1, c2>>, attention_mask |-> <<m1, m2>>] :
     c1 \in 0..(NClasses - 1), c2 \in 0..(NClasses - 1), m1 \in 1..MaxMask, m2 \in 1..MaxMask}
Outs ==
  {[loss |-> <<l1, l2>>, hit |-> <<IF l1 = 1 THEN 1 ELSE 0, IF l2 = 1 THEN 1 ELSE 0>>] :
     l1 \in 1..MaxLoss, l2 \in 1..MaxLoss}

\* Line 87 and line 88: the mode and the prefix follow the flag train.
ModeOf(train) == IF train THEN "train" ELSE "eval"
PrefixOf(train) == IF train THEN "train" ELSE "val"

\* Line 125: if train
TrainsAlways(train) == TRUE
Trains(train) == train

\* Line 127: optim.zero_grad(); on optim = None the attribute lookup fails.
ZeroGradErrorSkipsNone(optim) == ""
ZeroGradError(optim) == IF optim THEN "" ELSE "AttributeError"

\* Line 132: clamp_(-grad_clip, grad_clip) on one element.
ClampUpperOnly(x, lo, hi) == IF x > hi THEN hi ELSE x
Clamp(x, lo, hi) == IF x < lo THEN lo ELSE IF x > hi THEN hi ELSE x

\* The indices of the parameters with requires_grad.
Trainable == {e \in 1..Len(call.requires_grad) : call.requires_grad[e]}

callRest == <<trainerVars, ckptVars, argVars, i, metas, test_meta, min_loss, k,
              client_calls, eval_points>>

\* Lines 87-90: the mode of the model, the prefix, the meta mapping.
CallBegin ==
  /\ pc = "call"
  /\ model_mode' = ModeOf(call.train)
  /\ events' = Append(events, <<"model." \o ModeOf(call.train), i>>)
  /\ pc' = "forward"
  /\ UNCHANGED <<callRest, callVars, model_state, optim_state, batch_meta, err>>

\* Lines 93-123: the forward pass, the loss and the metrics; line 125 chooses.
CallForward ==
  /\ pc = "forward"
  /\ events' = Append(events, <<"forward", i>>)
  /\ pc' = IF Trains(call.train) THEN "zero_grad" ELSE "return"
  /\ UNCHANGED <<callRest, callVars, model_state, model_mode, optim_state, batch_meta, err>>

\* Line 127, with an optimizer: the gradients that exist are zeroed.
CallZeroGrad ==
  /\ pc = "zero_grad"
  /\ ZeroGradError(call.optim) = ""
  /\ call' = [call EXCEPT !.grad = [e \in 1..Len(call.grad) |->
                                      IF call.grad[e] = None THEN None ELSE Some(0)]]
  /\ events' = Append(events, <<"optim.zero_grad", i>>)
  /\ pc' = "backward"
  /\ UNCHANGED <<callRest, model_state, model_mode, optim_state, batch_meta, err>>

\* Line 127, without an optimizer: the exception leaves __call__.
CallNoOptim ==
  /\ pc = "zero_grad"
  /\ ZeroGradError(call.optim) # ""
  /\ err' = ZeroGradError(call.optim)
  /\ pc' = "raised"
  /\ UNCHANGED <<callRest, callVars, model_state, model_mode, optim_state, batch_meta, events>>

\* Line 128: backward leaves a gradient on every trainable parameter.
CallBackward ==
  /\ pc = "backward"
  /\ \E g \in [Trainable -> (0 - MaxGrad)..MaxGrad] :
       LET new == [e \in 1..Len(call.grad) |->
                     IF e \in Trainable THEN Some(g[e]) ELSE call.grad[e]]
       IN call' = [call EXCEPT !.grad = new, !.raw = new]
  /\ events' = Append(events, <<"backward", i>>)
  /\ pc' = "clamp"
  /\ UNCHANGED <<callRest, model_state, model_mode, optim_state, batch_meta, err>>

\* Lines 130-132: the gradient of every trainable parameter is clamped.
CallClamp ==
  /\ pc = "clamp"
  /\ call' = [call EXCEPT !.grad = [e \in 1..Len(call.grad) |->
                 IF e \in Trainable
                 THEN Some(Clamp(Val(call.grad[e]), 0 - GradClip, GradClip))
                 ELSE call.grad[e]]]
  /\ events' = Append(events, <<"clamp", i>>)
  /\ pc' = "optim_step"
  /\ UNCHANGED <<callRest, model_state, model_mode, optim_state, batch_meta, err>>

\* Lines 134-136: the optimizer updates the parameters from the gradients.
CallOptimStep ==
  /\ pc = "optim_step"
  /\ call' = [call EXCEPT !.applied = Some(call.grad)]
  /\ model_state' = optim_state + 1
  /\ optim_state' = optim_state + 1
  /\ events' = Append(events, <<"optim.step", i>>)
  /\ pc' = "return"
  /\ UNCHANGED <<callRest, model_mode, batch_meta, err>>

\* Lines 138-139: the record is returned.
CallReturn ==
  /\ pc = "return"
  /\ batch_meta' = CallRecord(PrefixOf(call.train), i, call.batch, call.out,
                              TrainData.n_bytes, TrainData.n_classes)
  /\ pc' = "returned"
  /\ UNCHANGED <<callRest, callVars, model_state, model_mode, optim_state, err, events>>

\* A constructed Trainer after some updates, and the arguments of one __call__.
InitCall ==
  /\ save_folder = None
  /\ client = FALSE
  /\ optim_state \in 0..MaxUpdates
  /\ model_state = optim_state
  /\ model_mode \in {"train", "eval"}
  /\ sched_state = 0
  /\ fs = ConstructedFs(save_folder)
  /\ n_steps = 0
  /\ test_every = None
  /\ test_data = None
  /\ i = optim_state
  /\ batch_meta = EmptyRecord
  /\ metas = <<>>
  /\ test_meta = None
  /\ min_loss = Inf
  /\ k = None
  /\ pc = "call"
  /\ err = ""
  /\ events = <<>>
  /\ client_calls = <<>>
  /\ save_calls = <<>>
  /\ eval_points = <<>>
  /\ saved = [n \in Labels |-> None]
  /\ last = NoCall
  /\ \E train \in BOOLEAN, optim \in BOOLEAN, batch \in Batches, out \in Outs,
        rg \in {<<TRUE, TRUE>>, <<TRUE, FALSE>>} :
       call = [train |-> train, optim |-> optim, batch |-> batch, out |-> out,
               requires_grad |-> rg, grad |-> <<None, None>>, raw |-> <<>>,
               applied |-> None, pre_model |-> model_state, pre_optim |-> optim_state]

NextCall ==
  \/ CallBegin
  \/ CallForward
  \/ CallZeroGrad
  \/ CallNoOptim
  \/ CallBackward
  \/ CallClamp
  \/ CallOptimStep
  \/ CallReturn

SpecCall == InitCall /\ [][NextCall]_vars

\* ------------------------------------------------ properties of Trainer.train
\* The positions in events of the calls named ev made at step j.
EvAt(ev, j) == {e \in 1..Len(events) : events[e] = <<ev, j>>}

\* The loop has left step j: by going on to the next step, or by an exception.
StepOver(j) == j < i \/ (j = i /\ pc = "raised")

\* An evaluation pass has run to its end at step j.
Evaluated(j) == \E e \in 1..Len(eval_points) : eval_points[e].step = j

SavedAs(name) == \E s \in 1..Len(save_calls) : save_calls[s].name = name

\* The mean over the records ms of the integer values under key, and of the
\* fractions under key (equal denominators: batches of one size).
MeanInt(ms, key) == Frac(SumSeq([j \in 1..Len(ms) |-> ms[j][key]]), Len(ms))
MeanFrac(ms, key) ==
  Frac(SumSeq([j \in 1..Len(ms) |-> ms[j][key][1]]), ms[1][key][2] * Len(ms))
MeanClass(ms, key, c) == Frac(SumSeq([j \in 1..Len(ms) |-> ms[j][key][c]]), Len(ms))

ValIntKeys == {"val/step", "val/forward_pass_time", "val/bytes_processed"}
ValFracKeys == {"val/bytes_processed_per_second", "val/loss_avg", "val/acc_avg"}
ValClassKeys == {"val/loss_class", "val/acc_class", "val/class_wise_bytes_processed"}
TrainKeys == {"train/step", "train/loss_avg", "train/acc_avg", "train/backward_pass_time"}

\* C1: once the loop has left an evaluation point, self.save has been called with
\* the label step_<i> of that point if and only if its mean val/loss_avg is
\* strictly below that of every earlier evaluation point of the run; and every
\* call of self.save carries the label of an evaluation point.
C1_SaveOnStrictImprovement ==
  /\ \A e \in 1..Len(eval_points) :
       LET p == eval_points[e] IN
       StepOver(p.step) =>
         (SavedAs(StepLabel(p.step))
            <=> \A d \in 1..(e - 1) : FracLess(p.loss, eval_points[d].loss))
  /\ \A s \in 1..Len(save_calls) :
       \E e \in 1..Len(eval_points) : save_calls[s].name = StepLabel(eval_points[e].step)

\* C2: an evaluation pass that has run to its end has pulled exactly
\* len(test_data._batches) batches and made exactly that many non-training calls,
\* collecting one record for each.
C2_OncePerEvalBatch ==
  \A j \in 0..MaxSteps :
    Evaluated(j) =>
      /\ Cardinality(EvAt("call_val", j)) = Val(test_data)._batches
      /\ Cardinality(EvAt("test_data.get_next_batch", j)) = Val(test_data)._batches
      /\ (j = i => Len(metas) = Val(test_data)._batches)

\* C3: once the aggregation of an evaluation pass is behind the loop, no
\* exception has been raised and the aggregated record holds, under every scalar
\* key of the first record, the mean of that key over the records of the pass.
C3_ScalarMean ==
  (Evaluated(i) /\ pc \in {"log", "raised"}) =>
     /\ err = ""
     /\ test_meta # None
     /\ \A key \in ValIntKeys :
          /\ key \in DOMAIN Val(test_meta)
          /\ FracEq(Val(test_meta)[key], MeanInt(metas, key))
     /\ \A key \in ValFracKeys :
          /\ key \in DOMAIN Val(test_meta)
          /\ FracEq(Val(test_meta)[key], MeanFrac(metas, key))

\* C4: once the aggregation of an evaluation pass is behind the loop, the
\* aggregated record holds under every per-class key a mapping over the class
\* ids 0..n_classes-1 whose value for a class is the mean of that class's values
\* over the records of the pass.
C4_PerClassMean ==
  (Evaluated(i) /\ pc \in {"log", "raised"}) =>
     /\ test_meta # None
     /\ \A key \in ValClassKeys :
          /\ key \in DOMAIN Val(test_meta)
          /\ DOMAIN Val(test_meta)[key] = 0..(Val(test_data).n_classes - 1)
          /\ \A c \in 0..(Val(test_data).n_classes - 1) :
               FracEq(Val(test_meta)[key][c], MeanClass(metas, key, c))

\* The guard of the claim C5, in the claim's words.
C5_Due(j) ==
  /\ j # 0
  /\ test_every # None
  /\ test_data # None
  /\ \E m \in 0..j : m * Val(test_every) = j

\* The loop has decided at step j whether to evaluate.
C5_Decided(j) == j < i \/ (j = i /\ pc \in {"eval", "aggregate", "log", "raised"})

\* C5: evaluation is entered at step i exactly when i # 0, test_every and
\* test_data are given and i is a multiple of test_every; at every other step no
\* evaluation batch is pulled, no val/ record is produced (neither collected nor
\* handed to the client) and no checkpoint is saved.
C5_EvalGuard ==
  /\ \A j \in 0..MaxSteps :
       C5_Decided(j) => (EvAt("pbar_val", j) # {} <=> C5_Due(j))
  /\ \A e \in 1..Len(events) :
       events[e][1] \in {"pbar_val", "test_data.get_next_batch", "call_val", "save"}
          => C5_Due(events[e][2])
  /\ \A e \in 1..Len(eval_points) : C5_Due(eval_points[e].step)
  /\ (pc \in {"check", "log"} /\ ~C5_Due(i)) => "val/step" \notin DOMAIN batch_meta
  /\ (pc = "eval" /\ metas # <<>>) => C5_Due(i)
  /\ \A c \in 1..Len(client_calls) :
       "val/step" \in DOMAIN client_calls[c] => C5_Due(client_calls[c]["val/step"])
  /\ \A s \in 1..Len(save_calls) :
       \E j \in 0..MaxSteps : C5_Due(j) /\ save_calls[s].name = StepLabel(j)

\* C5's case: steps 0 and 1 went by without evaluation and were handed to the
\* client, and step 2 has run an evaluation pass.
C5_Witness ==
  /\ pc = "aggregate"
  /\ i = 2
  /\ test_every = Some(2)
  /\ Len(client_calls) = 2
  /\ EvAt("pbar_val", 2) # {}
  /\ EvAt("pbar_val", 1) = {}

\* C6: the call ends in the terminal state, never by an exception, after exactly
\* n_steps training steps with the indices 0..n_steps-1 in order, one training
\* batch each.
C6_RunsAllSteps ==
  /\ pc # "raised"
  /\ pc = "done" =>
       /\ SelectSeq(events, LAMBDA ev : ev[1] = "call_train")
            = [j \in 1..n_steps |-> <<"call_train", j - 1>>]
       /\ SelectSeq(events, LAMBDA ev : ev[1] = "train_data.get_next_batch")
            = [j \in 1..n_steps |-> <<"train_data.get_next_batch", j - 1>>]

\* C7: after the evaluation pass of a step, the record the aggregate is merged
\* into is the record of that step's training call; and the record handed to
\* the client for such a step holds the train/ keys of the step together with
\* the aggregated val/ means.
C7_MergeIntoTrainRecord ==
  /\ (Evaluated(i) /\ pc \in {"aggregate", "log", "raised"}) =>
        /\ TrainKeys \subseteq DOMAIN batch_meta
        /\ batch_meta["train/step"] = i
  /\ \A c \in 1..Len(client_calls) :
       LET r == client_calls[c] IN
       (\E j \in 0..MaxSteps : Evaluated(j) /\ "train/step" \in DOMAIN r /\ r["train/step"] = j)
         => /\ TrainKeys \subseteq DOMAIN r
            /\ "val/loss_avg" \in DOMAIN r

\* C8: with a client, every step the loop has left was handed to the client
\* exactly once, after every other call of that step and before any call of a
\* later step; without a client no record is ever handed over.
C8_SinkOncePerStep ==
  /\ ~client => (client_calls = <<>> /\ \A e \in 1..Len(events) : events[e][1] # "client")
  /\ client =>
       /\ Len(client_calls) = Cardinality({e \in 1..Len(events) : events[e][1] = "client"})
       /\ \A j \in 0..MaxSteps :
            (StepOver(j) /\ EvAt("call_train", j) # {}) =>
               /\ Cardinality(EvAt("client", j)) = 1
               /\ \A e \in EvAt("client", j) : \A d \in 1..Len(events) :
                    /\ (events[d][2] = j /\ d # e) => d < e
                    /\ events[d][2] > j => d > e
                    /\ events[d][2] < j => d < e

\* ------------------------------------------- properties of save and load
ModelPt(folder) == Join(folder, <<"model.pt">>)
OptimPt(folder) == Join(folder, <<"optim.pt">>)
SchedPt(folder) == Join(folder, <<"lr_scheduler.pt">>)

\* C9: right after load(folder, optim, lr_scheduler) on a folder that holds
\* model.pt, the model parameters are those of model.pt and load has returned
\* normally; the optimizer (the scheduler) holds the state of optim.pt
\* (lr_scheduler.pt) when the argument was given and the artifact exists, and
\* the state it had before the call otherwise.
C9_LoadRestores ==
  (last.op = "load" /\ Exists(fs.files, ModelPt(last.arg))) =>
     /\ model_state = ReadFile(fs.files, ModelPt(last.arg)).state
     /\ last.raised = ""
     /\ optim_state = IF last.optim /\ Exists(fs.files, OptimPt(last.arg))
                      THEN ReadFile(fs.files, OptimPt(last.arg)).state
                      ELSE last.pre_optim
     /\ sched_state = IF last.lr_scheduler /\ Exists(fs.files, SchedPt(last.arg))
                      THEN ReadFile(fs.files, SchedPt(last.arg)).state
                      ELSE last.pre_sched

\* C10 as stated: right after load(x), x a label that save(x) has been called
\* with on a Trainer with a save folder, load has opened the model.pt that
\* save(x) wrote and the model parameters are those of the time of that save.
C10_RoundTripSameArgument ==
  \A x \in Labels :
    (last.op = "load" /\ last.arg = x /\ ~last.optim /\ ~last.lr_scheduler
       /\ saved[x] # None) =>
       /\ last.read = Val(saved[x]).path
       /\ last.raised = ""
       /\ model_state = Val(saved[x]).state

\* C10 as amended: right after load(os.path.join(save_folder, x)), whatever the
\* other arguments, load has opened the model.pt that the latest save(x) wrote
\* and found it, and the model parameters are those of the time of that save.
C10_RoundTripJoinedFolder ==
  \A x \in Labels :
    (save_folder # None /\ last.op = "load" /\ last.arg = Join(Val(save_folder), x)
       /\ saved[x] # None) =>
       /\ last.read = Val(saved[x]).path
       /\ last.raised # "FileNotFoundError"
       /\ model_state = Val(saved[x]).state

\* C10's case: save("x") after the first update, a second update, then
\* load("ckpt/x"), which brings the parameters of the first update back.
C10_Witness ==
  /\ save_folder = Some(<<"ckpt">>)
  /\ last.op = "load"
  /\ last.arg = <<"ckpt", "x">>
  /\ last.raised = ""
  /\ saved[<<"x">>] = Some([path |-> <<"ckpt", "x", "model.pt">>, state |-> 1])
  /\ optim_state = 2
  /\ model_state = 1

\* C11: on a Trainer without a save folder the filesystem holds no entry, from
\* construction on; a call of save returns normally, and it leaves the
\* filesystem, the model parameters, the optimizer, the scheduler and the
\* running best as they were.
C11_NoFolderNoEffect ==
  /\ [](save_folder = None => (fs = EmptyFs /\ (last.op = "save" => last.raised = "")))
  /\ [][(save_folder = None /\ last'.op = "save") =>
          (/\ fs' = fs
           /\ model_state' = model_state
           /\ optim_state' = optim_state
           /\ sched_state' = sched_state
           /\ min_loss' = min_loss)]_vars

\* C11's case: save with an optimizer, after an update, on a Trainer without a
\* save folder.
C11_Witness ==
  /\ save_folder = None
  /\ last.op = "save"
  /\ last.optim
  /\ last.raised = ""
  /\ optim_state = 1

\* ------------------------------------------------ properties of Trainer.__call__
\* The record a finished call returned, and the keys of its per-class mappings.
Returned == pc = "returned"
ClassKeys == {"loss_class", "acc_class", "class_wise_bytes_processed"}
RecordKey(name) == PrefixOf(call.train) \o "/" \o name
ClassesOfBatch == {call.batch.class[e] : e \in 1..Len(call.batch.class)}
StepEvents == {"optim.zero_grad", "backward", "clamp", "optim.step"}
EventsNamed(S) == {e \in 1..Len(events) : events[e][1] \in S}

\* C12 as stated: a training-mode call without an optimizer fails with
\* ConfigurationError, and the parameters after the failed call are those before it.
C12_FailsWithConfigurationError ==
  (call.train /\ ~call.optim /\ pc \in {"raised", "returned"}) =>
    (/\ pc = "raised"
     /\ err = "ConfigurationError"
     /\ model_state = call.pre_model)

\* C12, amended: a training-mode call without an optimizer never returns; it
\* fails with AttributeError at optim.zero_grad(), after the forward pass and
\* before backward, clamp and optimizer step, and the model parameters and the
\* gradients are those from before the call.
C12_FailsBeforeMutation ==
  (call.train /\ ~call.optim) =>
    (/\ pc \in {"call", "forward", "zero_grad", "raised"}
     /\ (pc = "raised" => err = "AttributeError")
     /\ model_state = call.pre_model
     /\ optim_state = call.pre_optim
     /\ call.grad = <<None, None>>
     /\ EventsNamed(StepEvents) = {})

C12_Witness ==
  /\ call.train
  /\ ~call.optim
  /\ pc = "raised"
  /\ err = "AttributeError"
  /\ call.pre_model = 1
  /\ model_state = 1

\* C13: in the record returned by __call__, in both phases, the three per-class
\* mappings have exactly the keys 0..n_classes-1, and a class without an
\* example in the batch has the value 0 in all three.
C13_AllClassesPresent ==
  Returned =>
    \A name \in ClassKeys :
      /\ RecordKey(name) \in DOMAIN batch_meta
      /\ DOMAIN batch_meta[RecordKey(name)] = 0..(TrainData.n_classes - 1)
      /\ \A c \in (0..(TrainData.n_classes - 1)) \ ClassesOfBatch :
           batch_meta[RecordKey(name)][c] = 0

C13_Witness ==
  /\ Returned
  /\ ~call.train
  /\ ClassesOfBatch = {0}
  /\ batch_meta["val/loss_class"][1] = 0
  /\ batch_meta["val/loss_class"][0] > 0

\* C14: in the record returned by __call__ the values of
\* class_wise_bytes_processed sum to bytes_processed, which is the sum of the
\* mask times n_bytes; each example's row sum times n_bytes is counted under
\* its own label and under no other.
C14_BytesByClassSumToTotal ==
  Returned =>
    LET by_class == batch_meta[RecordKey("class_wise_bytes_processed")]
        total == batch_meta[RecordKey("bytes_processed")]
        mask == call.batch.attention_mask
    IN /\ SumOver(by_class, DOMAIN by_class) = total
       /\ total = TrainData.n_bytes * SumSeq(mask)
       /\ \A c \in DOMAIN by_class :
            by_class[c] = TrainData.n_bytes * SumOver(mask, OfClass(call.batch.class, c))

C14_Witness ==
  /\ Returned
  /\ call.batch.class[1] # call.batch.class[2]
  /\ call.batch.attention_mask[1] # call.batch.attention_mask[2]
  /\ batch_meta[RecordKey("bytes_processed")] > SumSeq(call.batch.attention_mask)

\* C15: when optimizer.step() runs, every gradient element of every trainable
\* parameter lies in [-grad_clip, grad_clip]: below the interval it became
\* -grad_clip, above it grad_clip, inside it kept its value; the gradients the
\* optimizer applied are these; the order is zero_grad, backward, clamp, step.
Clamped(raw, g) ==
  /\ 0 - GradClip <= g
  /\ g <= GradClip
  /\ (raw < 0 - GradClip => g = 0 - GradClip)
  /\ (raw > GradClip => g = GradClip)
  /\ ((0 - GradClip <= raw /\ raw <= GradClip) => g = raw)

C15_ClampedAtOptimStep ==
  /\ pc = "optim_step" =>
       \A e \in Trainable : Clamped(Val(call.raw[e]), Val(call.grad[e]))
  /\ call.applied # None =>
       /\ \A e \in Trainable : Clamped(Val(call.raw[e]), Val(Val(call.applied)[e]))
       /\ [e \in 1..Len(events) |-> events[e][1]] =
            <<"model.train", "forward", "optim.zero_grad", "backward", "clamp", "optim.step">>

C15_Witness ==
  /\ call.applied # None
  /\ call.requires_grad = <<TRUE, TRUE>>
  /\ Val(call.raw[1]) < 0 - GradClip
  /\ Val(call.raw[2]) > GradClip
  /\ Val(Val(call.applied)[1]) = 0 - GradClip
  /\ Val(Val(call.applied)[2]) = GradClip

\* C16 as stated: the second of two equal calls of save in a row, with a save
\* folder, succeeds as the first did and leaves the filesystem as the first left
\* it; model.pt is there, optim.pt is there exactly when an optimizer was given
\* and lr_scheduler.pt exactly when a scheduler was given, each with the state
\* of its object; no file under another label is touched.
SecondSave == save_folder # None /\ last'.op = "save" /\ last'.again
AnySave == save_folder # None /\ last'.op = "save"
Folder == StepFolder(Val(save_folder), last'.arg)
Holds(f, path, kind, state) == Exists(f, path) /\ ReadFile(f, path) = Artifact(kind, state)
OtherFilesKept ==
  \A path \in DOMAIN fs.files :
    (path \notin {Norm(ModelPt(Folder)), Norm(OptimPt(Folder)), Norm(SchedPt(Folder))}) =>
       (path \in DOMAIN fs'.files /\ fs'.files[path] = fs.files[path])

C16_ArtifactsIffSupplied ==
  [][SecondSave =>
       (/\ last.raised = "" /\ last'.raised = ""
        /\ fs' = fs
        /\ Holds(fs'.files, ModelPt(Folder), "model", model_state)
        /\ (Exists(fs'.files, OptimPt(Folder)) <=> last'.optim)
        /\ (Exists(fs'.files, SchedPt(Folder)) <=> last'.lr_scheduler)
        /\ (last'.optim => Holds(fs'.files, OptimPt(Folder), "optim", optim_state))
        /\ (last'.lr_scheduler => Holds(fs'.files, SchedPt(Folder), "lr_scheduler", sched_state))
        /\ OtherFilesKept)]_vars

\* C16, amended: the second of two equal calls of save in a row succeeds as the
\* first did and leaves the filesystem as the first left it; model.pt is there
\* with the model's state, optim.pt (lr_scheduler.pt) is there with the
\* object's state when the object was given, and when it was not given the file
\* is as it was before the call: absent, or left over from an earlier save
\* under the same label.  Every call of save keeps every file other than the
\* ones it writes.
C16_IdempotentSave ==
  /\ [][SecondSave =>
          (/\ last.raised = "" /\ last'.raised = ""
           /\ fs' = fs
           /\ Holds(fs'.files, ModelPt(Folder), "model", model_state)
           /\ (last'.optim => Holds(fs'.files, OptimPt(Folder), "optim", optim_state))
           /\ (last'.lr_scheduler => Holds(fs'.files, SchedPt(Folder), "lr_scheduler", sched_state)))]_vars
  /\ [][AnySave =>
          (/\ last'.raised = ""
           /\ (~last'.optim =>
                 /\ Exists(fs'.files, OptimPt(Folder)) <=> Exists(fs.files, OptimPt(Folder))
                 /\ Exists(fs.files, OptimPt(Folder)) =>
                      ReadFile(fs'.files, OptimPt(Folder)) = ReadFile(fs.files, OptimPt(Folder)))
           /\ (~last'.lr_scheduler =>
                 /\ Exists(fs'.files, SchedPt(Folder)) <=> Exists(fs.files, SchedPt(Folder))
                 /\ Exists(fs.files, SchedPt(Folder)) =>
                      ReadFile(fs'.files, SchedPt(Folder)) = ReadFile(fs.files, SchedPt(Folder)))
           /\ OtherFilesKept)]_vars

\* A second equal save without optimizer, in a folder where an earlier save
\* left optim.pt, beside a checkpoint under another label.
C16_Witness ==
  /\ save_folder = Some(<<"ckpt">>)
  /\ last.op = "save"
  /\ last.again
  /\ last.arg = <<"x">>
  /\ ~last.optim
  /\ last.raised = ""
  /\ Exists(fs.files, <<"ckpt", "x", "optim.pt">>)
  /\ ReadFile(fs.files, <<"ckpt", "x", "model.pt">>) = Artifact("model", model_state)
  /\ Exists(fs.files, <<"ckpt", "y", "model.pt">>)

\* C17: a call with train = False, with or without an optimizer, leaves the
\* model parameters, the optimizer state and the gradients as they were, runs
\* no zero_grad, backward, clamp or optimizer step, and has the model in
\* evaluation mode from before its forward pass to its return.
C17_EvalLeavesStateAlone ==
  ~call.train =>
    (/\ model_state = call.pre_model
     /\ optim_state = call.pre_optim
     /\ call.grad = <<None, None>>
     /\ call.applied = None
     /\ EventsNamed(StepEvents) = {}
     /\ pc # "raised"
     /\ (pc # "call" => model_mode = "eval"))

C17_Witness ==
  /\ ~call.train
  /\ call.optim
  /\ Returned
  /\ call.pre_model = 1
  /\ EventsNamed({"forward"}) # {}
  /\ "val/loss_avg" \in DOMAIN batch_meta

\* ------------------------------------------------ properties of a failing run
\* C18: the running best is +infinity until an evaluation point, and once the
\* step of an evaluation point is over it is the least of the mean val/loss_avg
\* of the evaluation passes made so far.
C18_RunningBest ==
  /\ eval_points = <<>> => min_loss = Inf
  /\ \A e \in 1..Len(eval_points) :
       StepOver(eval_points[e].step) =>
         /\ \E b \in 1..e : FracEq(min_loss, eval_points[b].loss)
         /\ \A b \in 1..e : ~FracLess(eval_points[b].loss, min_loss)

\* C19: when a data source or a call raises at step i, the run ends there: the
\* raise is the last thing that happened, train has been left with the
\* exception, no training step, batch, save or client call follows, and step i
\* has neither a save nor a client call.
Raises == {e \in 1..Len(events) : events[e][1] = "raise"}

C19_FailFast ==
  /\ [](\A e \in Raises :
          /\ e = Len(events)
          /\ pc = "raised"
          /\ err = "CollaboratorError"
          /\ i = events[e][2]
          /\ \A j \in i..MaxSteps :
               /\ EvAt("client", j) = {}
               /\ ~SavedAs(StepLabel(j))
          /\ Len(client_calls) = (IF client THEN i ELSE 0))
  /\ [][pc # "raised"]_vars

C19_Witness ==
  /\ Raises # {}
  /\ pc = "raised"
  /\ client
  /\ i = 2
  /\ Len(metas) = 1
  /\ EvAt("test_data.get_next_batch", i) # {}
  /\ EvAt("client", 1) # {}


====
